---------------------------- MODULE Spec2Model ----------------------------
(***************************************************************************)
(* Model of the bulk ETL job of hospital_neo4j_etl                         *)
(* (src/hospital_neo4j_etl/src/hospital_bulk_csv_write.py).                *)
(*                                                                         *)
(* The job reads six CSV sources and writes a property graph: it declares  *)
(* one uniqueness constraint per node label, runs one LOAD CSV ... MERGE   *)
(* statement per node label, then six relationship statements, the whole   *)
(* function wrapped in @retry(tries=3, delay=10).                          *)
(*                                                                         *)
(* Cypher values are modelled as options: << >> is null, <<v>> is the      *)
(* value v.  Raw CSV text of a numeric column is a sequence of one-        *)
(* character strings, so that toInteger / toFloat are computed by parsing. *)
(* Raw text of a plain string column is a TLA+ string; "" is the empty CSV *)
(* field, which LOAD CSV WITH HEADERS yields as null.                      *)
(***************************************************************************)
EXTENDS Integers, Sequences, FiniteSets, TLC

(***************************************************************************)
(* Cypher values and the conversions the statements use                    *)
(***************************************************************************)
Null == << >>

\* evaluate a value once, then go on with it
Then(value, Rest(_)) == CHOOSE out \in {Rest(v) : v \in {value}} : TRUE

Val(v) == <<v>>

\* a plain string column of a CSV row, as LOAD CSV yields it
Str(s) == IF s = "" THEN Null ELSE Val(s)

DigitChars == {"0", "1", "2", "3", "4", "5", "6", "7", "8", "9"}

DigitVal(c) ==
    CASE c = "0" -> 0 [] c = "1" -> 1 [] c = "2" -> 2 [] c = "3" -> 3
      [] c = "4" -> 4 [] c = "5" -> 5 [] c = "6" -> 6 [] c = "7" -> 7
      [] c = "8" -> 8 [] c = "9" -> 9

\* the text without a leading sign
Unsigned(t) ==
    IF Len(t) > 0 /\ t[1] \in {"-", "+"} THEN SubSeq(t, 2, Len(t)) ELSE t

\* position of the decimal point in u, or Len(u) + 1 when there is none
PointAt(u) ==
    IF \E i \in 1..Len(u) : u[i] = "."
    THEN CHOOSE i \in 1..Len(u) : u[i] = "." /\ \A j \in 1..(i - 1) : u[j] # "."
    ELSE Len(u) + 1

\* t is an optionally signed decimal numeral: digits with at most one point
IsDecimal(t) ==
    LET u == Unsigned(t)
        p == PointAt(u)
    IN /\ \E i \in 1..Len(u) : u[i] \in DigitChars
       /\ \A i \in 1..Len(u) : i # p => u[i] \in DigitChars

RECURSIVE DigitsValue(_)
DigitsValue(ds) ==
    IF Len(ds) = 0 THEN 0
    ELSE DigitsValue(SubSeq(ds, 1, Len(ds) - 1)) * 10 + DigitVal(ds[Len(ds)])

Sign(t) == IF Len(t) > 0 /\ t[1] = "-" THEN -1 ELSE 1

\* Cypher toInteger() of a CSV field: null for an empty or non-numeric
\* field, the integer for an integer numeral, and the integer part (truncated
\* towards zero) for a decimal numeral.
ToInteger(t) ==
    IF ~IsDecimal(t) THEN Null
    ELSE LET u == Unsigned(t)
         IN Val(Sign(t) * DigitsValue(SubSeq(u, 1, PointAt(u) - 1)))

\* Cypher toFloat() of a CSV field: null for an empty or non-numeric field.
\* A float is carried as its number of hundredths, which is exact for the
\* amounts of the model (at most two fractional digits).
ToFloat(t) ==
    IF ~IsDecimal(t) THEN Null
    ELSE LET u    == Unsigned(t)
             p    == PointAt(u)
             frac == SubSeq(u, p + 1, Len(u))
             f1   == IF Len(frac) >= 1 THEN DigitVal(frac[1]) ELSE 0
             f2   == IF Len(frac) >= 2 THEN DigitVal(frac[2]) ELSE 0
         IN Val(Sign(t) * (DigitsValue(SubSeq(u, 1, p - 1)) * 100 + f1 * 10 + f2))

(***************************************************************************)
(* The store: a property graph with uniqueness constraints                 *)
(***************************************************************************)
NODES == <<"Hospital", "Payer", "Physician", "Patient", "Visit", "Review">>

EmptyStore == [constraints |-> {}, nodes |-> {}, edges |-> {}, nextId |-> 1]

Ok(st) == [ok |-> TRUE, st |-> st]

Failed(st) == [ok |-> FALSE, st |-> st]

HasId(n) == "id" \in DOMAIN n.props

\* SET x.k = v: a null value removes the property
SetProp(props, k, v) ==
    IF v = Null
    THEN [x \in DOMAIN props \ {k} |-> props[x]]
    ELSE [x \in DOMAIN props \cup {k} |-> IF x = k THEN v ELSE props[x]]

\* a node satisfies a property-map pattern
Matches(n, label, pattern) ==
    /\ n.label = label
    /\ \A k \in DOMAIN pattern : k \in DOMAIN n.props /\ n.props[k] = pattern[k]

\* faulty variant: the constraint is not enforced
ViolatesUniquenessNever(st, label, props) == FALSE

\* the store refuses a node that repeats an id under a declared constraint
ViolatesUniqueness(st, label, props) ==
    /\ label \in st.constraints
    /\ "id" \in DOMAIN props
    /\ \E n \in st.nodes : n.label = label /\ HasId(n) /\ n.props.id = props.id

\* MERGE (n:label {pattern}): match on the whole pattern, or create.  A null
\* property value in the pattern is an error; so is a creation the label's
\* uniqueness constraint forbids.
MergeNode(st, label, pattern) ==
    LET Merge(map) ==
            IF \E k \in DOMAIN map : map[k] = Null THEN Failed(st)
            ELSE IF \E n \in st.nodes : Matches(n, label, map) THEN Ok(st)
            ELSE IF ViolatesUniqueness(st, label, map) THEN Failed(st)
            ELSE Ok([st EXCEPT !.nodes = @ \cup {[nid |-> st.nextId,
                                                  label |-> label,
                                                  props |-> map]},
                               !.nextId = @ + 1])
    IN Then(pattern, Merge)

\* faulty variant: MATCH (n {id: v}), the label left out
MatchByIdAnyLabel(st, label, v) ==
    LET Match(id) ==
            IF id = Null THEN {}
            ELSE {n \in st.nodes : HasId(n) /\ n.props.id = id}
    IN Then(v, Match)

\* MATCH (n:label {id: v}): nothing matches a null id
MatchById(st, label, v) ==
    LET Match(id) ==
            IF id = Null THEN {}
            ELSE {n \in st.nodes : Matches(n, label, [id |-> id])}
    IN Then(v, Match)

\* faulty variant: MERGE with the edge's properties in its pattern, which an edge
\* whose properties were SET no longer matches
EdgesBetweenBare(st, type, a, b) ==
    {e \in st.edges : e.type = type /\ e.from = a /\ e.to = b
                        /\ DOMAIN e.props = {}}

EdgesBetween(st, type, a, b) ==
    {e \in st.edges : e.type = type /\ e.from = a /\ e.to = b}

\* faulty variant: CREATE in place of MERGE
MergeEdgeCreates(st, type, a, b) ==
    [st EXCEPT !.edges = @ \cup {[eid |-> st.nextId, type |-> type,
                                   from |-> a, to |-> b,
                                   props |-> [k \in {} |-> Null]]},
               !.nextId = @ + 1]

\* faulty variant: the edges of the other types that leave a are deleted
\* before the MERGE
MergeEdgeReplacing(st, type, a, b) ==
    LET kept == {e \in st.edges : ~(e.type # type /\ e.from = a)}
    IN IF EdgesBetween(st, type, a, b) # {} THEN [st EXCEPT !.edges = kept]
       ELSE [st EXCEPT !.edges = kept \cup {[eid |-> st.nextId, type |-> type,
                                             from |-> a, to |-> b,
                                             props |-> [k \in {} |-> Null]]},
                       !.nextId = @ + 1]

\* MERGE (a)-[r:type]->(b) for bound a and b: match the edges of that type
\* from a to b, or create one without properties
MergeEdge(st, type, a, b) ==
    IF EdgesBetween(st, type, a, b) # {} THEN st
    ELSE [st EXCEPT !.edges = @ \cup {[eid |-> st.nextId, type |-> type,
                                       from |-> a, to |-> b,
                                       props |-> [k \in {} |-> Null]]},
                    !.nextId = @ + 1]

(***************************************************************************)
(* The statements of load_hospital_graph_from_csv, one operator per        *)
(* LOAD CSV row of each statement                                          *)
(***************************************************************************)
RECURSIVE SetAll(_, _)
\* SET a.k1 = v1, a.k2 = v2, ...: kvs is the list of <<key, value>>
SetAll(props, kvs) ==
    IF Len(kvs) = 0 THEN props
    ELSE LET Rest(set) == SetAll(set, Tail(kvs))
         IN Then(SetProp(props, Head(kvs)[1], Head(kvs)[2]), Rest)

HospitalRow(st, hospitals) ==
    MergeNode(st, "Hospital",
              [id         |-> ToInteger(hospitals.hospital_id),
               name       |-> Str(hospitals.hospital_name),
               state_name |-> Str(hospitals.hospital_state)])

PayerRow(st, payers) ==
    MergeNode(st, "Payer",
              [id   |-> ToInteger(payers.payer_id),
               name |-> Str(payers.payer_name)])

PhysicianRow(st, physicians) ==
    MergeNode(st, "Physician",
              [id        |-> ToInteger(physicians.physician_id),
               name      |-> Str(physicians.physician_name),
               dob       |-> Str(physicians.physician_dob),
               grad_year |-> Str(physicians.physician_grad_year),
               school    |-> Str(physicians.medical_school)])

PatientRow(st, patients) ==
    MergeNode(st, "Patient",
              [id         |-> ToInteger(patients.patient_id),
               name       |-> Str(patients.patient_name),
               sex        |-> Str(patients.patient_sex),
               dob        |-> Str(patients.patient_dob),
               blood_type |-> Str(patients.patient_blood_type)])

VisitSetter(visits, props) ==
    LET Set(kvs) == SetAll(props, kvs)
    IN Then(<< <<"room_number", ToInteger(visits.room_number)>>,
              <<"admission_type", Str(visits.admission_type)>>,
              <<"admission_date", Str(visits.date_of_admission)>>,
              <<"test_results", Str(visits.test_results)>>,
              <<"chief_complaint", Str(visits.chief_complaint)>>,
              <<"treatment_description", Str(visits.treatment_description)>>,
              <<"primary_diagnosis", Str(visits.primary_diagnosis)>>,
              <<"discharge_date", Str(visits.discharge_date)>>,
              <<"status", Str(visits.visit_status)>> >>,
            Set)

\* MERGE on the id alone, then SET on the node the MERGE bound
VisitRow(st, visits) ==
    LET Merge(pattern) ==
            LET Set(merged) ==
                    IF ~merged.ok THEN merged
                    ELSE Ok([merged.st EXCEPT !.nodes =
                               {IF Matches(n, "Visit", pattern)
                                THEN [n EXCEPT !.props = VisitSetter(visits, @)]
                                ELSE n : n \in @}])
            IN Then(MergeNode(st, "Visit", pattern), Set)
    IN Then([id |-> ToInteger(visits.visit_id)], Merge)

ReviewRow(st, reviews) ==
    MergeNode(st, "Review",
              [id             |-> ToInteger(reviews.review_id),
               physician_name |-> Str(reviews.physician_name),
               hospital_name  |-> Str(reviews.hospital_name),
               patient_name   |-> Str(reviews.patient_name),
               text           |-> Str(reviews.review)])

\* the pairs of internal node ids two MATCH clauses bind
Pairs(from, to) == {<<a.nid, b.nid>> : a \in from, b \in to}

FirstPair(pairs) ==
    CHOOSE p \in pairs : \A q \in pairs :
        p[1] < q[1] \/ (p[1] = q[1] /\ p[2] <= q[2])

RECURSIVE MergePairsCreates(_, _, _)
\* faulty variant: CREATE (a)-[r:type]->(b) for every bound pair
MergePairsCreates(st, type, pairs) ==
    IF pairs = {} THEN st
    ELSE LET Create(p) ==
                 LET Rest(merged) == MergePairsCreates(merged, type, pairs \ {p})
                 IN Then([st EXCEPT !.edges = @ \cup
                                       {[eid |-> st.nextId, type |-> type,
                                         from |-> p[1], to |-> p[2],
                                         props |-> [k \in {} |-> Null]]},
                                    !.nextId = @ + 1],
                         Rest)
         IN Then(FirstPair(pairs), Create)

RECURSIVE MergePairs(_, _, _)
\* MERGE (a)-[r:type]->(b) once for every bound pair
MergePairs(st, type, pairs) ==
    IF pairs = {} THEN st
    ELSE LET Merge(p) ==
                 LET Rest(merged) == MergePairs(merged, type, pairs \ {p})
                 IN Then(MergeEdge(st, type, p[1], p[2]), Rest)
         IN Then(FirstPair(pairs), Merge)

\* faulty variant: MERGE (v)-[r:HAS]->(p), the edge drawn from the visit
HasRowReversed(st, visit) ==
    Ok(MergePairs(st, "HAS",
                  Pairs(MatchById(st, "Visit", ToInteger(visit.visit_id)),
                        MatchById(st, "Patient", ToInteger(visit.patient_id)))))

HasRow(st, visit) ==
    Ok(MergePairs(st, "HAS",
                  Pairs(MatchById(st, "Patient", ToInteger(visit.patient_id)),
                        MatchById(st, "Visit", ToInteger(visit.visit_id)))))

AtRow(st, visit) ==
    Ok(MergePairs(st, "AT",
                  Pairs(MatchById(st, "Visit", ToInteger(visit.visit_id)),
                        MatchById(st, "Hospital", ToInteger(visit.hospital_id)))))

TreatsRow(st, visit) ==
    Ok(MergePairs(st, "TREATS",
                  Pairs(MatchById(st, "Physician", ToInteger(visit.physician_id)),
                        MatchById(st, "Visit", ToInteger(visit.visit_id)))))

CoveredBySetter(visit, props) ==
    LET Set(kvs) == SetAll(props, kvs)
    IN Then(<< <<"service_date", Str(visit.discharge_date)>>,
               <<"billing_amount", ToFloat(visit.billing_amount)>> >>,
            Set)

CoveredByRow(st, visit) ==
    LET Merge(pairs) ==
            Ok([MergePairs(st, "COVERED_BY", pairs) EXCEPT !.edges =
                  {IF e.type = "COVERED_BY" /\ <<e.from, e.to>> \in pairs
                   THEN [e EXCEPT !.props = CoveredBySetter(visit, @)]
                   ELSE e : e \in @}])
    IN Then(Pairs(MatchById(st, "Visit", ToInteger(visit.visit_id)),
                  MatchById(st, "Payer", ToInteger(visit.payer_id))),
            Merge)

WritesRow(st, review) ==
    Ok(MergePairs(st, "WRITES",
                  Pairs(MatchById(st, "Visit", ToInteger(review.visit_id)),
                        MatchById(st, "Review", ToInteger(review.review_id)))))

EmploysModulus == 30

\* faulty variant: WHERE p.id + h.id % 30 = 0, the remainder taken of h.id alone
EmploysUnbracketed(st) ==
    LET physicians == {p \in st.nodes : p.label = "Physician" /\ HasId(p)}
        hospitals  == {h \in st.nodes : h.label = "Hospital" /\ HasId(h)}
        pairs == {<<p.nid, h.nid>> : <<p, h>> \in
                    {ph \in physicians \X hospitals :
                        ph[1].props.id[1] + (ph[2].props.id[1] % EmploysModulus) = 0}}
    IN Ok(MergePairs(st, "EMPLOYS", pairs))

\* the EMPLOYS statement reads no source: one pass over the node pairs
Employs(st) ==
    LET physicians == {p \in st.nodes : p.label = "Physician" /\ HasId(p)}
        hospitals  == {h \in st.nodes : h.label = "Hospital" /\ HasId(h)}
        pairs == {<<p.nid, h.nid>> : <<p, h>> \in
                    {ph \in physicians \X hospitals :
                        (ph[1].props.id[1] + ph[2].props.id[1]) % EmploysModulus = 0}}
    IN Ok(MergePairs(st, "EMPLOYS", pairs))

QUERIES == <<"HAS", "AT", "TREATS", "COVERED_BY", "WRITES", "EMPLOYS">>

\* what one row of a statement does
RowOp(name, st, row) ==
    CASE name = "Hospital"   -> HospitalRow(st, row)
      [] name = "Payer"      -> PayerRow(st, row)
      [] name = "Physician"  -> PhysicianRow(st, row)
      [] name = "Patient"    -> PatientRow(st, row)
      [] name = "Visit"      -> VisitRow(st, row)
      [] name = "Review"     -> ReviewRow(st, row)
      [] name = "HAS"        -> HasRow(st, row)
      [] name = "AT"         -> AtRow(st, row)
      [] name = "TREATS"     -> TreatsRow(st, row)
      [] name = "COVERED_BY" -> CoveredByRow(st, row)
      [] name = "WRITES"     -> WritesRow(st, row)

\* the source a statement's LOAD CSV reads
RowsOf(name, src) ==
    CASE name = "Hospital"  -> src.hospitals
      [] name = "Payer"     -> src.payers
      [] name = "Physician" -> src.physicians
      [] name = "Patient"   -> src.patients
      [] name \in {"Visit", "HAS", "AT", "TREATS", "COVERED_BY"} -> src.visits
      [] name \in {"Review", "WRITES"} -> src.reviews

RECURSIVE RunRows(_, _, _)
RunRows(name, r, rows) ==
    IF ~r.ok \/ Len(rows) = 0 THEN r
    ELSE LET Rest(done) == RunRows(name, done, Tail(rows))
             Row(row) == Then(RowOp(name, r.st, row), Rest)
         IN Then(Head(rows), Row)

\* One statement in its auto-commit transaction: every row takes effect, or
\* the statement fails and none does.
Statement(name, st, src) ==
    LET Commit(r) == IF r.ok THEN r ELSE Failed(st)
    IN Then(IF name = "EMPLOYS" THEN Employs(st)
            ELSE RunRows(name, Ok(st), RowsOf(name, src)),
            Commit)

\* CREATE CONSTRAINT IF NOT EXISTS ... REQUIRE n.id IS UNIQUE: refused when
\* the nodes already in the store repeat an id
SetUniquenessConstraint(st, node) ==
    IF \E a, b \in st.nodes :
          /\ a # b /\ a.label = node /\ b.label = node
          /\ HasId(a) /\ HasId(b) /\ a.props.id = b.props.id
    THEN Failed(st)
    ELSE Ok([st EXCEPT !.constraints = @ \cup {node}])

(***************************************************************************)
(* The sources: the rows each CSV file may hold                            *)
(***************************************************************************)
\* bounds of the model
MaxRows == 2

MaxEdits == 1

Hospital(id, name) ==
    [hospital_id |-> id, hospital_name |-> name, hospital_state |-> "TX"]

Payer(id, name) == [payer_id |-> id, payer_name |-> name]

Physician(id, name) ==
    [physician_id |-> id, physician_name |-> name, physician_dob |-> "1970-01-01",
     physician_grad_year |-> "1995-01-01", medical_school |-> "Johns Hopkins"]

Patient(id, name) ==
    [patient_id |-> id, patient_name |-> name, patient_sex |-> "F",
     patient_dob |-> "1980-02-02", patient_blood_type |-> "O+"]

Visit(id, patient, payer, discharge, amount) ==
    [visit_id |-> id, patient_id |-> patient, hospital_id |-> <<"1", "8">>,
     physician_id |-> <<"1", "2">>, payer_id |-> payer,
     room_number |-> <<"4", "0", "1">>, admission_type |-> "Elective",
     date_of_admission |-> "2021-04-20", test_results |-> "Normal",
     chief_complaint |-> "Chest pain", treatment_description |-> "Rest",
     primary_diagnosis |-> "Angina", discharge_date |-> discharge,
     visit_status |-> IF discharge = "" THEN "OPEN" ELSE "DISCHARGED",
     billing_amount |-> amount]

Review(id, visit, text) ==
    [review_id |-> id, visit_id |-> visit, physician_name |-> "Dr. A",
     hospital_name |-> "General", patient_name |-> "Pat", review |-> text]

\* the last row has an empty hospital_id
HospitalRows ==
    {Hospital(<<"1", "8">>, "General"), Hospital(<<"1", "8">>, "Mercy"),
     Hospital(<<"9">>, "General"), Hospital(<< >>, "General")}

PayerRows == {Payer(<<"1">>, "Medicaid"), Payer(<<"1">>, "Medicare")}

PhysicianRows ==
    {Physician(<<"1", "2">>, "Dr. A"), Physician(<<"1", "2">>, "Dr. B"),
     Physician(<<"3">>, "Dr. A")}

PatientRows == {Patient(<<"1">>, "Pat"), Patient(<<"1">>, "Patricia")}

VisitRows ==
    {Visit(<<"1">>, <<"1">>, <<"1">>, "2021-05-01",
           <<"1", "2", "5", "0", ".", "5", "0">>),
     Visit(<<"1">>, <<"1">>, <<"1">>, "2021-06-01", <<"N", "/", "A">>),
     Visit(<<"2">>, <<"7">>, <<"7">>, "2021-05-01", <<"9", "9", ".", "5">>),
     Visit(<<"x">>, <<"1">>, <<"1">>, "2021-05-01", <<"9", "9", ".", "5">>)}

ReviewRows ==
    {Review(<<"1">>, <<"1">>, "Good"), Review(<<"1">>, <<"1">>, "Bad"),
     Review(<<"1">>, <<"2">>, "Good")}

SOURCES == <<"hospitals", "payers", "physicians", "patients", "visits", "reviews">>

RowsFor(source) ==
    CASE source = "hospitals"  -> HospitalRows
      [] source = "payers"     -> PayerRows
      [] source = "physicians" -> PhysicianRows
      [] source = "patients"   -> PatientRows
      [] source = "visits"     -> VisitRows
      [] source = "reviews"    -> ReviewRows

\* the identifier column of a source's rows
KeyOf(source, row) ==
    CASE source = "hospitals"  -> row.hospital_id
      [] source = "payers"     -> row.payer_id
      [] source = "physicians" -> row.physician_id
      [] source = "patients"   -> row.patient_id
      [] source = "visits"     -> row.visit_id
      [] source = "reviews"    -> row.review_id

\* the files of at most n rows over a set of rows, no row repeated
RECURSIVE Files(_, _)
Files(rows, n) ==
    IF n = 0 THEN {<< >>}
    ELSE LET shorter == Files(rows, n - 1)
         IN shorter \cup {Append(f, r) : <<f, r>> \in
                             {fr \in shorter \X rows :
                                 /\ Len(fr[1]) = n - 1
                                 /\ \A i \in 1..Len(fr[1]) : fr[1][i] # fr[2]}}

\* the lists of files for SOURCES[i], SOURCES[i+1], ... holding at most n
\* rows between them
RECURSIVE FileLists(_, _)
FileLists(i, n) ==
    IF i > Len(SOURCES) THEN {<< >>}
    ELSE UNION {{<<f>> \o rest : rest \in FileLists(i + 1, n - Len(f))} :
                    f \in Files(RowsFor(SOURCES[i]), n)}

\* one complete data set: two physicians and three hospitals of which two
\* pairs satisfy the EMPLOYS rule, and a visit whose references are dangling
ExampleSources ==
    [hospitals  |-> <<Hospital(<<"9">>, "General"), Hospital(<<"1", "8">>, "Mercy"),
                      Hospital(<<"2", "7">>, "Mercy")>>,
     payers     |-> <<Payer(<<"1">>, "Medicaid")>>,
     physicians |-> <<Physician(<<"3">>, "Dr. A"), Physician(<<"1", "2">>, "Dr. B")>>,
     patients   |-> <<Patient(<<"1">>, "Pat")>>,
     visits     |-> <<Visit(<<"1">>, <<"1">>, <<"1">>, "2021-05-01",
                            <<"1", "2", "5", "0", ".", "5", "0">>),
                      Visit(<<"2">>, <<"7">>, <<"7">>, "2021-05-01",
                            <<"9", "9", ".", "5">>)>>,
     reviews    |-> <<Review(<<"1">>, <<"1">>, "Good")>>]

\* the sources of at most MaxRows rows in all, and the complete data set
SourceSets ==
    {[hospitals |-> l[1], payers |-> l[2], physicians |-> l[3],
      patients |-> l[4], visits |-> l[5], reviews |-> l[6]] :
        l \in FileLists(1, MaxRows)} \cup {ExampleSources}

\* source with its i-th row replaced by row
Replaced(src, source, i, row) ==
    [src EXCEPT ![source] = [@ EXCEPT ![i] = row]]

\* What an edit of the sources between two invocations may leave: one row
\* changed in its other columns, its identifier kept.
Edits(src) ==
    UNION {
        {Replaced(src, source, i, row) :
            <<i, row>> \in {ir \in (1..Len(src[source])) \X RowsFor(source) :
                /\ KeyOf(source, ir[2]) = KeyOf(source, src[source][ir[1]])
                /\ \A j \in 1..Len(src[source]) : src[source][j] # ir[2]}}
        : source \in {SOURCES[k] : k \in 1..Len(SOURCES)}}

(***************************************************************************)
(* The job: load_hospital_graph_from_csv under @retry(tries=3, delay=10)   *)
(***************************************************************************)
VARIABLES
    src,        \* the six CSV files
    store,      \* the graph database
    errorAt,    \* where the server reports a failed statement: in its answer
                \* to RUN ("run": session.run raises) or to PULL ("pull": the
                \* result is never consumed, and closing the session discards
                \* it); "unseen" until a statement first fails
    phase,      \* "idle", "running", "sleeping", "returned", "raised"
    pc,         \* the stage the running attempt is at
    tries,      \* the attempts the retry decorator has left
    edits,      \* edits of the sources so far
    stale,      \* history: the sources changed since the last invocation began
    store0,     \* history: the store when the invocation started
    prev,       \* history: how the invocation before this one ended: "idle"
                \* (there was none), "returned", "raised", or "unreachable"
                \* (raised, the store unreachable in some attempt)
    outages,    \* history: attempts of this invocation that found the store
                \* unreachable
    partial,    \* history: a failed attempt of this invocation had changed
                \* the store
    issued,     \* history: what the running attempt has sent to the store, in
                \* order: <<"constraint", label>> and <<"statement", name>>
    drivers,    \* the drivers this process has created and not closed
    messages,   \* st.session_state["messages"]: the list of (role, text)
    question,   \* the text in the input box of the chat page
    wire,       \* where the request of the Send handler is: not sent, with
                \* the endpoint, answered, or failed
    agent,      \* how rag_agent.run ended for the request the endpoint holds
    asked       \* history: the questions sent, in order

jobVars ==
    <<src, store, errorAt, phase, pc, tries, edits, stale, store0, prev, outages,
      partial, issued, drivers>>

chatVars == <<messages, question, wire, agent, asked>>

vars == <<jobVars, chatVars>>

\* no request is on its way
NoWire == [kind |-> "none"]

\* rag_agent.run has not been called
NoOutcome == [raised |-> FALSE, value |-> ""]

\* the chat page of a new session; the endpoint has no request
ChatIdle ==
    /\ messages = << >>
    /\ question = ""
    /\ wire = NoWire
    /\ agent = NoOutcome
    /\ asked = << >>

Tries == 3

\* the stages of one attempt, in program order
ConstraintStage == 1

FirstStatement == ConstraintStage + 1

LastStatement == ConstraintStage + Len(NODES) + Len(QUERIES)

CloseStage == LastStatement + 1

\* faulty variant: the relationship statements run before the node statements
StatementAtRelationshipsFirst(stage) ==
    IF stage - ConstraintStage <= Len(QUERIES)
    THEN QUERIES[stage - ConstraintStage]
    ELSE NODES[stage - ConstraintStage - Len(QUERIES)]

StatementAt(stage) ==
    IF stage - ConstraintStage <= Len(NODES)
    THEN NODES[stage - ConstraintStage]
    ELSE QUERIES[stage - ConstraintStage - Len(NODES)]

RECURSIVE SetConstraints(_, _)
\* for node in NODES: session.execute_write(_set_uniqueness_constraints, node),
\* from the i-th label on; the first refusal raises
SetConstraints(r, i) ==
    IF ~r.ok \/ i > Len(NODES) THEN r
    ELSE LET Rest(done) == SetConstraints(done, i + 1)
         IN Then(SetUniquenessConstraint(r.st, NODES[i]), Rest)

Init ==
    /\ src \in SourceSets
    /\ store = EmptyStore
    /\ errorAt = "unseen"
    /\ phase = "idle"
    /\ pc = 0
    /\ tries = 0
    /\ edits = 0
    /\ stale = FALSE
    /\ store0 = EmptyStore
    /\ prev = "idle"
    /\ outages = 0
    /\ partial = FALSE
    /\ issued = << >>
    /\ drivers = 0
    /\ ChatIdle

Halted == phase \in {"idle", "returned", "raised"}

\* __main__ calls load_hospital_graph_from_csv() in a new process; the
\* function starts by creating a driver
Invoke ==
    /\ UNCHANGED chatVars
    /\ Halted
    /\ phase' = "running"
    /\ pc' = ConstraintStage
    /\ tries' = Tries
    /\ store0' = store
    /\ prev' = IF phase = "raised" /\ outages > 0 THEN "unreachable" ELSE phase
    /\ outages' = 0
    /\ partial' = FALSE
    /\ stale' = FALSE
    /\ issued' = << >>
    /\ drivers' = 1
    /\ UNCHANGED <<src, store, errorAt, edits>>

\* faulty variant: the decorator gives up one failure late
RaiseLate ==
    /\ tries' = tries - 1
    /\ phase' = IF tries - 1 < 0 THEN "raised" ELSE "sleeping"
    /\ pc' = 0
    /\ partial' = (partial \/ store # store0)
    /\ issued' = << >>
    /\ UNCHANGED drivers

\* faulty variant: the decorator re-raises the first failure
RaiseAtOnce ==
    /\ tries' = tries - 1
    /\ phase' = "raised"
    /\ pc' = 0
    /\ partial' = (partial \/ store # store0)
    /\ issued' = << >>
    /\ UNCHANGED drivers

\* an exception leaves the function: the decorator counts the attempt, then
\* sleeps before the next one or re-raises after the last
Raise ==
    /\ tries' = tries - 1
    /\ phase' = IF tries - 1 = 0 THEN "raised" ELSE "sleeping"
    /\ pc' = 0
    /\ partial' = (partial \/ store # store0)
    /\ issued' = << >>
    /\ UNCHANGED drivers

\* time.sleep(delay) is over: the decorator calls the function again, which
\* creates another driver
Retry ==
    /\ UNCHANGED chatVars
    /\ phase = "sleeping"
    /\ phase' = "running"
    /\ pc' = ConstraintStage
    /\ drivers' = drivers + 1
    /\ UNCHANGED <<src, store, errorAt, tries, edits, stale, store0, prev, outages,
                   partial, issued>>

\* the constraint session: one write transaction per label
DeclareConstraints ==
    /\ UNCHANGED chatVars
    /\ phase = "running"
    /\ pc = ConstraintStage
    /\ \E r \in {SetConstraints(Ok(store), 1)} :
          /\ store' = r.st
          /\ IF r.ok
             THEN /\ pc' = pc + 1
                  /\ issued' = issued \o [i \in 1..Len(NODES) |->
                                              <<"constraint", NODES[i]>>]
                  /\ UNCHANGED <<phase, tries, partial, drivers>>
             ELSE Raise
    /\ UNCHANGED <<src, errorAt, edits, stale, store0, prev, outages>>

AtStatement == phase = "running" /\ pc \in FirstStatement..LastStatement

\* session.run(query) of a statement the server carries out
RunStatement ==
    /\ UNCHANGED chatVars
    /\ AtStatement
    /\ \E r \in {Statement(StatementAt(pc), store, src)} :
          r.ok /\ store' = r.st
    /\ pc' = pc + 1
    /\ issued' = Append(issued, <<"statement", StatementAt(pc)>>)
    /\ UNCHANGED <<src, errorAt, phase, tries, edits, stale, store0, prev, outages,
                   partial, drivers>>

\* the server refuses the statement and says so in its answer to RUN
StatementRaises ==
    /\ UNCHANGED chatVars
    /\ AtStatement
    /\ ~Statement(StatementAt(pc), store, src).ok
    /\ errorAt \in {"unseen", "run"}
    /\ errorAt' = "run"
    /\ Raise
    /\ UNCHANGED <<src, store, edits, stale, store0, prev, outages>>

\* the server refuses the statement in its answer to PULL: nothing reads the
\* result, the with block closes the session and the next stage starts
StatementErrorDiscarded ==
    /\ UNCHANGED chatVars
    /\ AtStatement
    /\ ~Statement(StatementAt(pc), store, src).ok
    /\ errorAt \in {"unseen", "pull"}
    /\ errorAt' = "pull"
    /\ pc' = pc + 1
    /\ issued' = Append(issued, <<"statement", StatementAt(pc)>>)
    /\ UNCHANGED <<src, store, phase, tries, edits, stale, store0, prev, outages,
                   partial, drivers>>

\* the store cannot be reached: the stage's first call raises
StoreUnreachable ==
    /\ UNCHANGED chatVars
    /\ phase = "running"
    /\ pc \in ConstraintStage..LastStatement
    /\ Raise
    /\ outages' = outages + 1
    /\ UNCHANGED <<src, store, errorAt, edits, stale, store0, prev>>

\* driver.close(), and the function returns
CloseDriver ==
    /\ UNCHANGED chatVars
    /\ phase = "running"
    /\ pc = CloseStage
    /\ phase' = "returned"
    /\ pc' = 0
    /\ drivers' = drivers - 1
    /\ UNCHANGED <<src, store, errorAt, tries, edits, stale, store0, prev, outages,
                   partial, issued>>

\* the CSV files change after a load that returned (a change before the first
\* load is another initial state)
EditSource ==
    /\ UNCHANGED chatVars
    /\ phase = "returned"
    /\ edits < MaxEdits
    /\ src' \in Edits(src)
    /\ edits' = edits + 1
    /\ stale' = TRUE
    /\ UNCHANGED <<store, errorAt, phase, pc, tries, store0, prev, outages, partial,
                   issued, drivers>>

Next ==
    \/ Invoke
    \/ Retry
    \/ DeclareConstraints
    \/ RunStatement
    \/ StatementRaises
    \/ StatementErrorDiscarded
    \/ StoreUnreachable
    \/ CloseDriver
    \/ EditSource

Spec == Init /\ [][Next]_vars

\* the steps the program takes by itself: the interpreter goes on to the next
\* call, and time.sleep returns
JobStep ==
    \/ Retry
    \/ DeclareConstraints
    \/ RunStatement
    \/ StatementRaises
    \/ StatementErrorDiscarded
    \/ CloseDriver

FairSpec == Spec /\ WF_vars(JobStep)

(***************************************************************************)
(* The chat: the Send handler of streamlit_app.py posts the question to    *)
(* the chat endpoint of api.py and appends the reply to the history        *)
(***************************************************************************)
MaxSends == 3

\* what the input box may hold; "" is the empty box
Questions == {"", "Which hospital has the most visits?", "What do patients say?"}

\* how rag_agent.run may end: it returns a text (the agent's final answer),
\* or it raises an exception e, value then being str(e)
AgentOutcomes ==
    [raised : {FALSE}, value : {"Mercy"}] \cup
    [raised : {TRUE}, value : {"quota exceeded"}]

\* how requests.post or response.json may raise: the message of the exception
RequestErrors == {"Connection refused"}

\* faulty variant: no except clause, the exception leaves the handler and
\* the server answers for it
chatUncaught(outcome) ==
    IF outcome.raised THEN [detail |-> "Internal Server Error"]
    ELSE [answer |-> outcome.value]

\* the body of what chat returns for the outcome of rag_agent.run(req.question)
chat(outcome) ==
    IF outcome.raised THEN [answer |-> "Error: " \o outcome.value]
    ELSE [answer |-> outcome.value]

\* "(!)" stands for the warning sign the page puts before its own texts
NoAnswer == "(!) No response from API"

\* the answer the Send handler makes of the reply
Answer(reply) ==
    IF reply.kind = "raised" THEN "(!) Error: " \o reply.message
    ELSE IF "answer" \in DOMAIN reply.body THEN reply.body.answer
    ELSE NoAnswer

\* the user changes the text of the input box; the script reruns and the
\* button is not pressed
Type ==
    /\ wire = NoWire
    /\ question' \in Questions \ {question}
    /\ UNCHANGED <<messages, wire, agent, asked>>
    /\ UNCHANGED jobVars

\* st.button("Send") and question: the question joins the history and is
\* posted
Send ==
    /\ wire = NoWire
    /\ question # ""
    /\ Len(asked) < MaxSends
    /\ messages' = Append(messages, <<"user", question>>)
    /\ wire' = [kind |-> "request", body |-> [question |-> question]]
    /\ asked' = Append(asked, question)
    /\ UNCHANGED <<question, agent>>
    /\ UNCHANGED jobVars

\* chat: answer = rag_agent.run(req.question), which returns or raises
AgentRuns ==
    /\ wire.kind = "request"
    /\ agent' \in AgentOutcomes
    /\ wire' = [kind |-> "handling", body |-> wire.body]
    /\ UNCHANGED <<messages, question, asked>>
    /\ UNCHANGED jobVars

\* chat returns ChatResponse(answer=...)
ChatReturns ==
    /\ wire.kind = "handling"
    /\ wire' = [kind |-> "response", body |-> chat(agent)]
    /\ UNCHANGED <<messages, question, agent, asked>>
    /\ UNCHANGED jobVars

\* the request does not reach the endpoint, or what comes back is not JSON:
\* requests.post or response.json raises
RequestRaises ==
    /\ wire.kind = "request"
    /\ \E message \in RequestErrors : wire' = [kind |-> "raised", message |-> message]
    /\ UNCHANGED <<messages, question, agent, asked>>
    /\ UNCHANGED jobVars

\* what answers at API_URL sends a JSON object without an "answer"
NoAnswerBody ==
    /\ wire.kind = "request"
    /\ wire' = [kind |-> "response", body |-> [detail |-> "Not Found"]]
    /\ UNCHANGED <<messages, question, agent, asked>>
    /\ UNCHANGED jobVars

\* faulty variant: the except clause leaves the handler, no reply is appended
ReceiveQuiet ==
    /\ wire.kind \in {"response", "raised"}
    /\ messages' = IF wire.kind = "raised" THEN messages
                   ELSE Append(messages, <<"bot", Answer(wire)>>)
    /\ wire' = NoWire
    /\ UNCHANGED <<question, agent, asked>>
    /\ UNCHANGED jobVars

\* the rest of the Send handler: the answer joins the history, st.rerun()
Receive ==
    /\ wire.kind \in {"response", "raised"}
    /\ messages' = Append(messages, <<"bot", Answer(wire)>>)
    /\ wire' = NoWire
    /\ UNCHANGED <<question, agent, asked>>
    /\ UNCHANGED jobVars

\* a chat session beside a job that has not been invoked
ChatInit ==
    /\ ChatIdle
    /\ src = ExampleSources
    /\ store = EmptyStore
    /\ errorAt = "unseen"
    /\ phase = "idle"
    /\ pc = 0
    /\ tries = 0
    /\ edits = 0
    /\ stale = FALSE
    /\ store0 = EmptyStore
    /\ prev = "idle"
    /\ outages = 0
    /\ partial = FALSE
    /\ issued = << >>
    /\ drivers = 0

ChatNext ==
    \/ Type
    \/ Send
    \/ AgentRuns
    \/ ChatReturns
    \/ RequestRaises
    \/ NoAnswerBody
    \/ Receive

ChatSpec == ChatInit /\ [][ChatNext]_vars

(***************************************************************************)
(* What the properties below speak of                                      *)
(***************************************************************************)
Labels == {NODES[i] : i \in 1..Len(NODES)}

Types == {QUERIES[i] : i \in 1..Len(QUERIES)}

NodesOf(st, label) == {n \in st.nodes : n.label = label}

\* the source the label's node statement reads
SourceOf(label) == SOURCES[CHOOSE k \in 1..Len(NODES) : NODES[k] = label]

EdgesOf(st, type) == {e \in st.edges : e.type = type}

\* the nodes of a label that carry the integer a CSV field denotes
Resolved(st, label, text) ==
    {n \in NodesOf(st, label) : HasId(n) /\ n.props.id = ToInteger(text)}

\* the properties a record of a node source describes: those of the node
\* that loading the record alone into an empty store leaves
Described(label, row) ==
    LET loaded == RowOp(label, EmptyStore, row).st.nodes
    IN (CHOOSE n \in loaded : TRUE).props

\* no two rows of a file share an identifier
UniqueKeys(sources) ==
    \A k \in 1..Len(SOURCES) :
        LET file == sources[SOURCES[k]]
        IN \A i, j \in 1..Len(file) :
              KeyOf(SOURCES[k], file[i]) = KeyOf(SOURCES[k], file[j]) => i = j

\* the rows of the file the label's node statement reads
RowSet(label, sources) ==
    {RowsOf(label, sources)[i] : i \in 1..Len(RowsOf(label, sources))}

RECURSIVE StatementsFrom(_, _, _)
StatementsFrom(st, sources, stage) ==
    IF stage > LastStatement THEN st
    ELSE StatementsFrom(Statement(StatementAt(stage), st, sources).st,
                        sources, stage + 1)

\* what one attempt that reaches driver.close() makes of a store
FullLoad(st, sources) ==
    StatementsFrom(SetConstraints(Ok(st), 1).st, sources, FirstStatement)

(***************************************************************************)
(* Properties                                                              *)
(***************************************************************************)

\* C1. Idempotence of the full load: once an invocation has run over the
\* sources (it returned, or it raised for a reason other than an unreachable
\* store), invoking the load again over the same sources leaves, for every
\* node label and every relationship type, as many nodes and edges as the
\* store held when the second invocation started.
IdempotentFullLoad ==
    (prev \in {"returned", "raised"} /\ edits = 0) =>
        /\ \A label \in Labels :
              Cardinality(NodesOf(store, label)) = Cardinality(NodesOf(store0, label))
        /\ \A type \in Types :
              Cardinality(EdgesOf(store, type)) = Cardinality(EdgesOf(store0, type))

\* a second invocation has returned over a store the first one filled with
\* nodes and with edges of a type that carries properties
SecondLoadReturned ==
    /\ phase = "returned"
    /\ prev = "returned"
    /\ edits = 0
    /\ EdgesOf(store, "COVERED_BY") # {}
    /\ EdgesOf(store, "EMPLOYS") # {}

\* C2 (as claimed). Attribute overwrite: when a record of a node source keeps
\* its identifier and differs in another attribute from the node the store
\* holds, the next invocation (the store reachable throughout) returns and
\* leaves exactly one node of that label and identifier, carrying the
\* record's attributes.
AttributeOverwrite ==
    (phase \in {"returned", "raised"} /\ ~stale /\ outages = 0 /\ UniqueKeys(src)) =>
        \A label \in Labels : \A row \in RowSet(label, src) :
            (\E old \in store0.nodes :
                /\ old.label = label
                /\ old.props.id = Described(label, row).id
                /\ old.props # Described(label, row))
            => /\ phase = "returned"
               /\ \E n \in store.nodes :
                     /\ n.props = Described(label, row)
                     /\ Resolved(store, label, KeyOf(SourceOf(label), row)) = {n}

\* C3. Identifier uniqueness: in every reachable state every node carries an
\* id, and no two nodes of one label carry the same id.
IdentifierUnique ==
    \A a, b \in store.nodes :
        /\ HasId(a)
        /\ (a.label = b.label /\ a.props.id = b.props.id) => a = b

\* an invocation has returned although a record repeated the id of a node
\* with other attributes: the store refused the second node
RepeatedIdRefused ==
    /\ phase = "returned"
    /\ ~stale
    /\ \E label \in Labels : \E row \in RowSet(label, src) : \E n \in store.nodes :
          /\ n.label = label
          /\ n.props.id = Described(label, row).id
          /\ n.props # Described(label, row)

\* C4. Edge uniqueness: in every reachable state there is at most one edge
\* of a type from one node to another.
EdgeUnique ==
    \A e, f \in store.edges :
        (e.type = f.type /\ e.from = f.from /\ e.to = f.to) => e = f

\* a load over changed sources has returned, and an edge that was there
\* before it is still the one edge of its pair, its attributes set again
EdgeSetAgain ==
    /\ phase = "returned"
    /\ ~stale
    /\ \E e \in store.edges : \E f \in store0.edges :
          /\ e.eid = f.eid
          /\ e.props # f.props
          /\ EdgesBetween(store, e.type, e.from, e.to) = {e}

\* the endpoints of a sourced relationship: the label of each, and the
\* column of the record that names it
EndpointsOf(type) ==
    CASE type = "HAS"        -> [from |-> <<"Patient", "patient_id">>,
                                 to   |-> <<"Visit", "visit_id">>]
      [] type = "AT"         -> [from |-> <<"Visit", "visit_id">>,
                                 to   |-> <<"Hospital", "hospital_id">>]
      [] type = "TREATS"     -> [from |-> <<"Physician", "physician_id">>,
                                 to   |-> <<"Visit", "visit_id">>]
      [] type = "COVERED_BY" -> [from |-> <<"Visit", "visit_id">>,
                                 to   |-> <<"Payer", "payer_id">>]
      [] type = "WRITES"     -> [from |-> <<"Visit", "visit_id">>,
                                 to   |-> <<"Review", "review_id">>]

SourcedTypes == Types \ {"EMPLOYS"}

FromNodes(st, type, row) ==
    Resolved(st, EndpointsOf(type).from[1], row[EndpointsOf(type).from[2]])

ToNodes(st, type, row) ==
    Resolved(st, EndpointsOf(type).to[1], row[EndpointsOf(type).to[2]])

\* an endpoint of the record matches no node of the expected label
Dangling(st, type, row) ==
    FromNodes(st, type, row) = {} \/ ToNodes(st, type, row) = {}

\* the sources without the records of the relationship's file that dangle
WithoutDangling(st, type, sources) ==
    LET file == IF type = "WRITES" THEN "reviews" ELSE "visits"
        Resolves(row) == ~Dangling(st, type, row)
    IN [sources EXCEPT ![file] = SelectSeq(@, Resolves)]

AtSourcedRelationship ==
    /\ phase = "running"
    /\ pc \in FirstStatement..LastStatement
    /\ StatementAt(pc) \in SourcedTypes

\* C5. Referential tolerance: a sourced relationship statement that the store
\* carries out never fails; it goes on to the next stage, creates no node,
\* creates edges only between nodes that both endpoints of some record
\* resolve to, and leaves the store exactly as it would without the records
\* that dangle.
ReferentialTolerance ==
    [][(AtSourcedRelationship /\ outages' = outages) =>
          LET type == StatementAt(pc)
              rows == RowSet(type, src)
          IN /\ phase' = "running"
             /\ pc' = pc + 1
             /\ store'.nodes = store.nodes
             /\ \A e \in store'.edges \ store.edges :
                   /\ e.type = type
                   /\ \E row \in rows :
                         /\ e.from \in {n.nid : n \in FromNodes(store, type, row)}
                         /\ e.to \in {n.nid : n \in ToNodes(store, type, row)}
             /\ store' = Statement(type, store, WithoutDangling(store, type, src)).st
      ]_vars

\* a load has returned over a visit whose patient and payer match no node
\* and whose hospital does: the visit has its AT edge and neither a HAS nor a
\* COVERED_BY edge, and the stages after these ran
DanglingSkipped ==
    /\ phase = "returned"
    /\ ~stale
    /\ EdgesOf(store, "EMPLOYS") # {}
    /\ \E i \in 1..Len(src.visits) : \E v \in Resolved(store, "Visit", src.visits[i].visit_id) :
          /\ Dangling(store, "HAS", src.visits[i])
          /\ Dangling(store, "COVERED_BY", src.visits[i])
          /\ \E e \in EdgesOf(store, "AT") : e.from = v.nid
          /\ \A e \in EdgesOf(store, "HAS") : e.to # v.nid
          /\ \A e \in EdgesOf(store, "COVERED_BY") : e.from # v.nid

\* the pairs the EMPLOYS rule names among the nodes of a store
EmploysRule(st) ==
    {<<p.nid, h.nid>> : <<p, h>> \in
        {ph \in NodesOf(st, "Physician") \X NodesOf(st, "Hospital") :
            (ph[1].props.id[1] + ph[2].props.id[1]) % 30 = 0}}

AfterInference == phase = "running" /\ pc = CloseStage

\* C6. Inference: right after the EMPLOYS statement the EMPLOYS edges are one
\* edge from p to h for exactly the pairs of a Physician node p and a
\* Hospital node h with (p.id + h.id) mod 30 = 0, and running the statement
\* again leaves the store as it is.
EmploysExact ==
    AfterInference =>
        /\ {<<e.from, e.to>> : e \in EdgesOf(store, "EMPLOYS")} = EmploysRule(store)
        /\ Cardinality(EdgesOf(store, "EMPLOYS")) = Cardinality(EmploysRule(store))
        /\ Statement("EMPLOYS", store, src).st = store

\* the statement has just run over physicians and hospitals of which two
\* pairs satisfy the rule and others do not
EmploysInferred ==
    /\ AfterInference
    /\ Cardinality(EdgesOf(store, "EMPLOYS")) = 2
    /\ Cardinality(NodesOf(store, "Physician") \X NodesOf(store, "Hospital")) > 2

\* the attempts of the invocation that have started
AttemptsMade ==
    IF phase = "idle" THEN 0
    ELSE IF phase \in {"running", "returned"} THEN Tries - tries + 1
    ELSE Tries - tries

\* C7. Retry bound: an invocation makes at most 3 attempts; it raises only
\* when 3 attempts have failed, and sleeps only when a further attempt is to
\* come; it has raised whenever 3 attempts found the store unreachable; and
\* when it raises with fewer than 3 such attempts, some attempt failed for a
\* statement the store refused, so that an invocation that meets nothing but
\* two unreachable attempts returns.
RetryBound ==
    /\ AttemptsMade \in 0..3
    /\ phase = "raised" => AttemptsMade = 3
    /\ phase = "sleeping" => AttemptsMade \in 1..2
    /\ phase = "returned" => AttemptsMade \in 1..3
    /\ outages = 3 => phase = "raised"
    /\ (phase = "raised" /\ outages < 3) => errorAt = "run"

\* the store was unreachable in the first two attempts, and the third
\* loaded the graph and returned
ThirdAttemptReturned ==
    /\ phase = "returned"
    /\ ~stale
    /\ outages = 2
    /\ AttemptsMade = 3
    /\ EdgesOf(store, "EMPLOYS") # {}

\* the COVERED_BY edges between two nodes
CoveredBy(st, v, p) ==
    {e \in EdgesOf(st, "COVERED_BY") : e.from = v.nid /\ e.to = p.nid}

\* C8 (as claimed). COVERED_BY attributes: after a load that returned, every
\* visit record whose Visit and Payer resolve has exactly one COVERED_BY edge
\* from the one to the other, whose service_date is the record's
\* discharge_date; its billing_amount is the record's amount when that
\* parses as a decimal, and otherwise is what the edge carried before the
\* load (nothing, when the load created the edge).
CoveredByAttributes ==
    (phase = "returned" /\ ~stale /\ UniqueKeys(src)) =>
        \A i \in 1..Len(src.visits) :
            \A v \in Resolved(store, "Visit", src.visits[i].visit_id) :
                \A p \in Resolved(store, "Payer", src.visits[i].payer_id) :
                    \E e \in CoveredBy(store, v, p) :
                        /\ CoveredBy(store, v, p) = {e}
                        /\ "service_date" \in DOMAIN e.props
                        /\ e.props.service_date = Val(src.visits[i].discharge_date)
                        /\ IF ToFloat(src.visits[i].billing_amount) # Null
                           THEN /\ "billing_amount" \in DOMAIN e.props
                                /\ e.props.billing_amount
                                      = ToFloat(src.visits[i].billing_amount)
                           ELSE \A old \in CoveredBy(store0, v, p) :
                                   "billing_amount" \in DOMAIN old.props =>
                                       /\ "billing_amount" \in DOMAIN e.props
                                       /\ e.props.billing_amount
                                             = old.props.billing_amount

\* C9. Retry safety: when an invocation returns after an attempt of it
\* failed, the store holds exactly the constraints, nodes and edges that one
\* attempt without failure makes of the store the invocation started with.
RetrySafe ==
    (phase = "returned" /\ ~stale /\ AttemptsMade > 1) =>
        /\ store.nodes = FullLoad(store0, src).nodes
        /\ store.edges = FullLoad(store0, src).edges
        /\ store.constraints = FullLoad(store0, src).constraints

\* an invocation has returned after an attempt that had loaded nodes failed,
\* over a store that was empty when it started
ReturnedAfterPartialAttempt ==
    /\ phase = "returned"
    /\ ~stale
    /\ partial
    /\ store0.nodes = {}
    /\ EdgesOf(store, "COVERED_BY") # {}

Ended == phase \in {"returned", "raised"}

\* C10. Termination with a single outcome: an invocation that has started
\* ends, returned or raised; it returns only from the last stage of an
\* attempt, and raises only when its third attempt fails; once ended its
\* outcome stands until the function is invoked afresh.
TerminatesOnce ==
    /\ [][(phase' = "returned" /\ phase # "returned") =>
             (phase = "running" /\ pc = CloseStage)]_vars
    /\ [][(phase' = "raised" /\ phase # "raised") =>
             (phase = "running" /\ AttemptsMade = 3)]_vars
    /\ [][Ended =>
             \/ phase' = phase
             \/ (phase' = "running" /\ pc' = ConstraintStage
                    /\ tries' = 3 /\ outages' = 0)]_vars
    /\ (phase \in {"running", "sleeping"}) ~> Ended

\* an invocation has raised after three attempts, and another has returned
\* at its first
BothOutcomesSeen ==
    /\ phase = "returned"
    /\ prev = "unreachable"
    /\ AttemptsMade = 1
    /\ store.nodes # {}

\* where a thing sent to the store belongs in the order of an attempt:
\* constraints, node statements, sourced relationships, inference
Rank(sent) ==
    IF sent[1] = "constraint" THEN 0
    ELSE IF sent[2] \in Labels THEN 1
    ELSE IF sent[2] \in SourcedTypes THEN 2
    ELSE 3

\* the things sent before the j-th
Before(j) == {issued[i] : i \in 1..(j - 1)}

\* C11. Stage ordering: in every attempt nothing is sent to the store twice
\* or out of order; when a node statement is sent the constraints of all six
\* labels have been declared; when a relationship statement is sent all six
\* node statements have been; and the EMPLOYS statement is sent after the
\* five sourced relationship statements, with nothing after it.
StageOrder ==
    \A j \in 1..Len(issued) :
        /\ issued[j] \notin Before(j)
        /\ \A sent \in Before(j) : Rank(sent) <= Rank(issued[j])
        /\ Rank(issued[j]) >= 1 =>
              \A label \in Labels :
                  <<"constraint", label>> \in Before(j) /\ label \in store.constraints
        /\ Rank(issued[j]) >= 2 =>
              \A label \in Labels : <<"statement", label>> \in Before(j)
        /\ Rank(issued[j]) = 3 =>
              /\ issued[j] = <<"statement", "EMPLOYS">>
              /\ \A type \in SourcedTypes : <<"statement", type>> \in Before(j)
              /\ j = Len(issued)

\* an attempt has sent everything: six constraints and twelve statements, the
\* nodes and the edges of every type are in the store
AllStagesIssued ==
    /\ phase = "running"
    /\ pc = CloseStage
    /\ Len(issued) = 18
    /\ \A label \in Labels : NodesOf(store, label) # {}
    /\ \A type \in Types : EdgesOf(store, type) # {}

\* a record of the file the statement reads has a missing or unparseable
\* identifier
InvalidIdentifier(name, sources) ==
    \E row \in RowSet(name, sources) : ToInteger(KeyOf(SourceOf(name), row)) = Null

\* the stage the attempt is at cannot be carried out: the store is
\* unreachable, or it refuses the statement for a record's identifier
StageFails ==
    /\ phase = "running"
    /\ \/ outages' = outages + 1
       \/ /\ AtStatement
          /\ StatementAt(pc) \in Labels
          /\ InvalidIdentifier(StatementAt(pc), src)

\* C12 (as claimed). Failure propagation: a step of an attempt at a stage
\* that fails starts no later stage; the failure reaches the retry wrapper,
\* which counts the attempt and sleeps or re-raises.
FailurePropagates ==
    [][StageFails => /\ pc' = 0
                     /\ phase' \in {"sleeping", "raised"}
                     /\ tries' = tries - 1
                     /\ store' = store]_vars

\* C13 (as claimed). Resource release: when an attempt has ended, completed
\* or aborted, the process holds no open driver, and a running attempt holds
\* its own driver only.  (Each session is opened and closed by a with block
\* inside one stage, so none is open between stages.)
ResourcesReleased ==
    /\ phase \in {"sleeping", "raised", "returned"} => drivers = 0
    /\ phase = "running" => drivers = 1

\* the orders of the rows of one file
Reordered(file) ==
    {[i \in 1..Len(file) |-> file[f[i]]] : f \in Permutations(1..Len(file))}

\* the sources with the rows of each file in any order
Reorderings(sources) ==
    {[hospitals |-> h, payers |-> p, physicians |-> d, patients |-> a,
      visits |-> v, reviews |-> r] :
        h \in Reordered(sources.hospitals), p \in Reordered(sources.payers),
        d \in Reordered(sources.physicians), a \in Reordered(sources.patients),
        v \in Reordered(sources.visits), r \in Reordered(sources.reviews)}

\* two orders of the six node statements: the program's, and its reverse
NodeOrders == {NODES, [i \in 1..Len(NODES) |-> NODES[Len(NODES) + 1 - i]]}

\* the nodes without their internal ids
Bare(nodes) == {[label |-> n.label, props |-> n.props] : n \in nodes}

RECURSIVE NodeLoads(_, _, _, _)
\* the node statements from the k-th of an order on, each in its own
\* transaction: the labels whose statement the store refused, and the nodes
NodeLoads(r, sources, order, k) ==
    IF k > Len(order) THEN [refused |-> r.refused, nodes |-> Bare(r.st.nodes)]
    ELSE LET Rest(done) ==
                 NodeLoads([refused |-> IF done.ok THEN r.refused
                                        ELSE r.refused \cup {order[k]},
                            st |-> done.st],
                           sources, order, k + 1)
         IN Then(Statement(order[k], r.st, sources), Rest)

NodeStageDone ==
    /\ phase = "running"
    /\ pc = FirstStatement + Len(NODES)
    /\ store0.nodes = {}

\* C14 (as claimed). Order independence of node loading: when the node
\* statements of an attempt over a store without nodes are done, the nodes in
\* the store are those the node statements leave in the program's order, and
\* every order of the rows within the files and either order of the six
\* statements gives the same refusals and the same nodes.
OrderIndependent ==
    NodeStageDone =>
        LET start == [refused |-> {}, st |-> [store0 EXCEPT !.constraints = Labels]]
            here  == NodeLoads(start, src, NODES, 1)
        IN /\ here.nodes = Bare(store.nodes)
           /\ \A sources \in Reorderings(src) : \A order \in NodeOrders :
                 NodeLoads(start, sources, order, 1) = here

\* C15 (as claimed). Invalid identifier is fatal: no node is without an
\* integer id; an attempt is never past the node statement of a label whose
\* file has a record with a missing or unparseable identifier; and no
\* invocation returns over such a file.
InvalidIdentifierFatal ==
    /\ \A n \in store.nodes : HasId(n) /\ n.props.id # Null
    /\ \A k \in 1..Len(NODES) :
          (phase = "running" /\ pc > ConstraintStage + k) =>
              ~InvalidIdentifier(NODES[k], src)
    /\ (phase = "returned" /\ ~stale) =>
          \A label \in Labels : ~InvalidIdentifier(label, src)

\* the labels a relationship type prescribes for its two endpoints
Prescribed(type) ==
    IF type = "EMPLOYS" THEN <<"Physician", "Hospital">>
    ELSE <<EndpointsOf(type).from[1], EndpointsOf(type).to[1]>>

\* the edges a step created
Created(before, after) ==
    {e \in after.edges : e.eid \notin {f.eid : f \in before.edges}}

\* C16. Edge typing and direction: after every step every edge of the store
\* runs from a node of the label its type prescribes to a node of the label
\* its type prescribes (HAS Patient to Visit, AT Visit to Hospital, TREATS
\* Physician to Visit, COVERED_BY Visit to Payer, WRITES Visit to Review,
\* EMPLOYS Physician to Hospital), and every edge of a sourced type that the
\* step created joins exactly the two nodes whose ids are the identifier
\* fields of one record of the source.
EdgeTyping ==
    [][/\ \A e \in store'.edges : \E a, b \in store'.nodes :
             /\ a.nid = e.from /\ a.label = Prescribed(e.type)[1]
             /\ b.nid = e.to   /\ b.label = Prescribed(e.type)[2]
       /\ \A e \in Created(store, store') :
             e.type \in SourcedTypes =>
                 \E row \in RowSet(e.type, src) :
                     /\ {n.nid : n \in FromNodes(store', e.type, row)} = {e.from}
                     /\ {n.nid : n \in ToNodes(store', e.type, row)} = {e.to}
      ]_vars

\* a load has returned with edges of all six types, two of them TREATS
EveryTypeLoaded ==
    /\ phase = "returned"
    /\ Cardinality(EdgesOf(store, "TREATS")) = 2
    /\ \A type \in Types : EdgesOf(store, type) # {}

\* the (label, id) pairs of the nodes of a store
NodeKeys(st) == {<<n.label, n.props.id>> : n \in {m \in st.nodes : HasId(m)}}

\* the (type, from, to) triples of the edges of a store
EdgeKeys(st) == {<<e.type, e.from, e.to>> : e \in st.edges}

\* C17. No deletion: no step of any attempt, failed attempts and loads over
\* changed sources included, removes a node or an edge: the (label, id)
\* pairs of the nodes and the (type, from, to) triples of the edges that the
\* store holds before a step are all there after it.
NoDeletion ==
    [][/\ NodeKeys(store) \subseteq NodeKeys(store')
       /\ EdgeKeys(store) \subseteq EdgeKeys(store')
       /\ Cardinality(store.nodes) <= Cardinality(store'.nodes)
       /\ Cardinality(store.edges) <= Cardinality(store'.edges)]_vars

\* a load over changed sources has returned, and the store still holds a
\* sourced edge that no record of the sources names any more
EdgeOutlivesRecord ==
    /\ phase = "returned"
    /\ ~stale
    /\ edits > 0
    /\ \E e \in store.edges :
          /\ e.type \in SourcedTypes
          /\ e \in store0.edges
          /\ \A row \in RowSet(e.type, src) :
                \/ e.from \notin {n.nid : n \in FromNodes(store, e.type, row)}
                \/ e.to \notin {n.nid : n \in ToNodes(store, e.type, row)}

\* the entries of a history alternate, a user entry first
Paired(list) ==
    \A i \in 1..Len(list) : list[i][1] = IF i % 2 = 1 THEN "user" ELSE "bot"

\* C18. Chat history pairing: after every step of the chat, whatever the
\* backend did (it answered, it sent a body without an answer, the request
\* raised), the history is a sequence of (user, bot) pairs in send order:
\* when no request is under way its length is twice the number of questions
\* sent, and one less while the request of the last question is under way;
\* the entries alternate user, bot; the k-th user entry is the k-th question
\* sent; and the entries the history held before the step are unchanged.
ChatPairing ==
    [][/\ Len(messages') =
             IF wire' = NoWire THEN 2 * Len(asked') ELSE 2 * Len(asked') - 1
       /\ Paired(messages')
       /\ \A k \in 1..Len(asked') : messages'[2 * k - 1] = <<"user", asked'[k]>>
       /\ Len(messages) <= Len(messages')
       /\ SubSeq(messages', 1, Len(messages)) = messages
      ]_vars

\* three questions were sent and replied to: one answered by the endpoint,
\* one by a body without an answer, one by a request that raised
ThreeBackends ==
    /\ wire = NoWire
    /\ Len(asked) = 3
    /\ messages[2] = <<"bot", "Mercy">>
    /\ messages[4] = <<"bot", NoAnswer>>
    /\ messages[6] = <<"bot", "(!) Error: Connection refused">>

\* C19. The chat endpoint never propagates an agent failure: whenever chat
\* holds a request and rag_agent.run has ended, the next step is chat
\* returning a response whose body is a ChatResponse: its only field is
\* answer, which is "Error: " followed by the exception's message when
\* rag_agent.run raised, and exactly the value rag_agent.run returned
\* otherwise.
ChatNeverRaises ==
    [][wire.kind = "handling" =>
          /\ wire'.kind = "response"
          /\ DOMAIN wire'.body = {"answer"}
          /\ wire'.body.answer =
                IF agent.raised THEN "Error: " \o agent.value ELSE agent.value
      ]_vars

\* the endpoint answered one question with what the agent returned and
\* another with the message of the exception the agent raised
BothAgentOutcomes ==
    /\ wire.kind = "response"
    /\ agent.raised
    /\ wire.body = [answer |-> "Error: quota exceeded"]
    /\ Len(messages) = 3
    /\ messages[2] = <<"bot", "Mercy">>

==========================================================================
